---- MODULE Spec2Model ----
(***************************************************************************)
(* Kenya AI-CRM backend: the HTTP operations of main.py over the document  *)
(* store, with the request models of main.py and the entity schemas of     *)
(* schemas.py.                                                             *)
(*                                                                         *)
(* Money is counted in hundredths of a KES (1000 KES = 100000), so that    *)
(* Python's round(x, 2) is a rounding to an integer.  Quantities are       *)
(* whole numbers.                                                          *)
(***************************************************************************)
EXTENDS Integers, Sequences, FiniteSets, TLC

VARIABLES
    db,        \* the module-level store handle of database.py: NULL when not connected
    store,     \* the backing collections: [lead: Seq(doc), proposal: Seq(doc)]
    nextId,    \* the store's id generator
    request,   \* the request being answered: [op, payload]
    response,  \* the answer to it: [status, body], body a JSON object
    storeLog   \* the store calls made for it: [calls, error]

vars == <<db, store, nextId, request, response, storeLog>>

----------------------------------------------------------------------------
(* Values *)

NULL == "None"            \* Python's None
ABSENT == "<absent>"      \* a key the JSON payload does not carry
NoNumber == <<>>          \* a numeric key the JSON payload does not carry
Num(n) == <<n>>           \* a numeric key present with value n

DB == "db"                \* a live handle

MaxRecords == 2           \* inserts a run of the model makes
MaxCollections == 22      \* collection names the store may report
MaxFailing == 3           \* schema kinds whose generation fails in one request

Min(a, b) == IF a < b THEN a ELSE b

----------------------------------------------------------------------------
(* schemas.py *)

LeadSources == {"whatsapp", "gmail", "web", "social", "manual"}
LeadStatuses == {"new", "qualified", "proposal", "won", "lost"}
ProposalStatuses == {"draft", "approved", "sent", "accepted", "rejected"}
ProposalAiStatuses == {"none", "pending", "completed", "failed"}
DeliveryChannels == {"whatsapp", "gmail", "pdf"}

\* SCHEMA_MODELS, in the order the dict literal gives
SchemaNames ==
    <<"tenant", "billingrecord", "modulesubscription", "useraccount", "lead",
      "message", "catalogitem", "proposal", "payment", "aijob", "eventlog">>

SCHEMA_MODELS ==
    [n \in {SchemaNames[i] : i \in 1..Len(SchemaNames)} |->
        CASE n = "tenant" -> "Tenant"
          [] n = "billingrecord" -> "BillingRecord"
          [] n = "modulesubscription" -> "ModuleSubscription"
          [] n = "useraccount" -> "UserAccount"
          [] n = "lead" -> "Lead"
          [] n = "message" -> "Message"
          [] n = "catalogitem" -> "CatalogItem"
          [] n = "proposal" -> "Proposal"
          [] n = "payment" -> "Payment"
          [] n = "aijob" -> "AIJob"
          [] n = "eventlog" -> "EventLog"]

Opt(v) == IF v = ABSENT THEN NULL ELSE v

\* ProposalItem: title is required; quantity defaults to 1, unit_price_kes to 0
ProposalItem_valid(raw) == raw.title # ABSENT

ProposalItem(raw) ==
    [catalog_item_id |-> Opt(raw.catalog_item_id),
     title |-> raw.title,
     description |-> Opt(raw.description),
     quantity |-> IF raw.quantity = NoNumber THEN 1 ELSE raw.quantity[1],
     unit_price_kes |-> IF raw.unit_price_kes = NoNumber THEN 0 ELSE raw.unit_price_kes[1]]

\* Proposal(...): the keyword arguments given, the declared defaults otherwise
Proposal(tenant_id, lead_id, items, subtotal_kes, tax_kes, total_kes, status, ai_status, delivery_channels) ==
    [tenant_id |-> tenant_id,
     lead_id |-> lead_id,
     items |-> items,
     subtotal_kes |-> subtotal_kes,
     tax_kes |-> tax_kes,
     total_kes |-> total_kes,
     status |-> status,
     ai_status |-> ai_status,
     delivery_channels |-> delivery_channels]

----------------------------------------------------------------------------
(* database.py: the store adapter *)

Collections == {"lead", "proposal"}

UnavailableMsg == "Database not available"
WriteErrorMsg == "insert failed"
ReadErrorMsg == "find failed"

\* create_document(collection_name, data): one insert, or an exception.
\* writeFails says whether the store refuses the insert.
create_document(collection_name, data, writeFails) ==
    IF db = NULL THEN
        [ok |-> FALSE, error |-> UnavailableMsg, id |-> 0, store |-> store, nextId |-> nextId]
    ELSE IF writeFails THEN
        [ok |-> FALSE, error |-> WriteErrorMsg, id |-> 0, store |-> store, nextId |-> nextId]
    ELSE
        [ok |-> TRUE, error |-> NULL, id |-> nextId,
         store |-> [store EXCEPT ![collection_name] = Append(@, [_id |-> nextId] @@ data)],
         nextId |-> nextId + 1]

\* get_documents(collection_name, filter_dict, limit): the first `limit`
\* documents of the collection that match the tenant filter, in store order.
get_documents(collection_name, tenant_id, limit, readFails) ==
    IF db = NULL THEN [ok |-> FALSE, error |-> UnavailableMsg, docs |-> <<>>]
    ELSE IF readFails THEN [ok |-> FALSE, error |-> ReadErrorMsg, docs |-> <<>>]
    ELSE LET matching == SelectSeq(store[collection_name], LAMBDA d : d.tenant_id = tenant_id)
         IN [ok |-> TRUE, error |-> NULL,
             docs |-> SubSeq(matching, 1, Min(limit, Len(matching)))]

----------------------------------------------------------------------------
(* main.py: responses *)

Ok(body) == [status |-> 200, body |-> body]
HTTPException(status_code, detail) == [status |-> status_code, body |-> [detail |-> detail]]
\* what the framework answers when the declared request model rejects the payload
RequestValidationError == HTTPException(422, "validation error")
NoPayload == [empty |-> TRUE]       \* a request without parameters
NoResponse == [status |-> 0, body |-> [empty |-> TRUE]]

\* the collections the handlers name
LEAD_COLLECTION == "lead"

\* the collection create_lead writes, left in a copied line
PROPOSAL_COLLECTION_copied == "lead"

PROPOSAL_COLLECTION == "proposal"

NoCalls == [calls |-> 0, error |-> NULL]
OneCall(r) == [calls |-> 1, error |-> r.error]

----------------------------------------------------------------------------
(* main.py: POST /leads *)

\* class LeadIn: tenant_id and source are required strings, the rest optional;
\* keys the model does not declare are dropped.
LeadIn_valid(raw) == raw.tenant_id # ABSENT /\ raw.source # ABSENT

LeadIn(raw) ==
    [tenant_id |-> raw.tenant_id,
     source |-> raw.source,
     name |-> Opt(raw.name),
     phone |-> Opt(raw.phone),
     email |-> Opt(raw.email),
     company |-> Opt(raw.company)]

IngestMeta == {<<"ingest", "api">>}

\* the Lead defaults (status "new", an empty meta) in place of the update
lead_dict_defaults(payload) == [status |-> "new", meta |-> {}] @@ payload

\* lead_dict = payload.model_dump(); lead_dict.update({...})
lead_dict(payload) == [status |-> "new", meta |-> IngestMeta] @@ payload

\* the exception swallowed: a success answer whatever the insert did
LeadCreated_swallowed(r) == Ok([id |-> r.id, status |-> "created"])

LeadCreated(r) ==
    IF r.ok THEN Ok([id |-> r.id, status |-> "created"])
    ELSE HTTPException(500, r.error)

create_lead(raw, writeFails) ==
    /\ request' = [op |-> "create_lead", payload |-> raw]
    /\ UNCHANGED db
    /\ IF ~LeadIn_valid(raw) THEN
           /\ response' = RequestValidationError
           /\ storeLog' = NoCalls
           /\ UNCHANGED <<store, nextId>>
       ELSE
           LET r == create_document(LEAD_COLLECTION, lead_dict(LeadIn(raw)), writeFails) IN
           /\ response' = LeadCreated(r)
           /\ storeLog' = OneCall(r)
           /\ store' = r.store
           /\ nextId' = r.nextId

----------------------------------------------------------------------------
(* main.py: POST /proposals/draft *)

\* class ProposalDraftIn: tenant_id, lead_id and items are required, every
\* item a ProposalItem; keys the model does not declare are dropped.
ProposalDraftIn_valid(raw) ==
    /\ raw.tenant_id # ABSENT
    /\ raw.lead_id # ABSENT
    /\ \A i \in 1..Len(raw.items) : ProposalItem_valid(raw.items[i])

ProposalDraftIn(raw) ==
    [tenant_id |-> raw.tenant_id,
     lead_id |-> raw.lead_id,
     items |-> [i \in 1..Len(raw.items) |-> ProposalItem(raw.items[i])]]

\* Python's `v or d` on a number: d when v is falsy, that is when v is 0
Or(v, d) == IF v = 0 THEN d ELSE v

\* (it.quantity or 1) * (it.unit_price_kes or 0)
line_total(it) == Or(it.quantity, 1) * Or(it.unit_price_kes, 0)

RECURSIVE sum_lines(_)
sum_lines(items) ==
    IF items = <<>> THEN 0 ELSE line_total(Head(items)) + sum_lines(Tail(items))

\* round(num / den, 0) as Python rounds: to nearest, ties to even (den > 0)
Round(num, den) ==
    LET q == num \div den
        r == num % den
    IN IF 2 * r < den THEN q
       ELSE IF 2 * r > den THEN q + 1
       ELSE IF q % 2 = 0 THEN q ELSE q + 1

VatPercent == 16

\* subtotal, tax = round(subtotal * 0.16, 2), total = round(subtotal + tax, 2)
compute_totals(items) ==
    LET subtotal == sum_lines(items)
        tax == Round(subtotal * VatPercent, 100)
        total == Round(subtotal + tax, 1)
    IN [subtotal |-> subtotal, tax |-> tax, total |-> total]

\* subtotal_kes not passed on: the Proposal default of 0 is stored
draft_proposal_no_subtotal(payload, totals) ==
    Proposal(payload.tenant_id, payload.lead_id, payload.items,
             0, totals.tax, totals.total,
             "draft", "pending", <<"pdf">>)

\* proposal = Proposal(tenant_id=..., ..., delivery_channels=["pdf"])
draft_proposal(payload, totals) ==
    Proposal(payload.tenant_id, payload.lead_id, payload.items,
             totals.subtotal, totals.tax, totals.total,
             "draft", "pending", <<"pdf">>)

DraftCreated(r, totals) ==
    IF r.ok THEN Ok([id |-> r.id, status |-> "draft_created", totals |-> totals])
    ELSE HTTPException(500, r.error)

create_proposal_draft(raw, writeFails) ==
    /\ request' = [op |-> "create_proposal_draft", payload |-> raw]
    /\ UNCHANGED db
    /\ IF ~ProposalDraftIn_valid(raw) THEN
           /\ response' = RequestValidationError
           /\ storeLog' = NoCalls
           /\ UNCHANGED <<store, nextId>>
       ELSE
           LET payload == ProposalDraftIn(raw)
               totals == compute_totals(payload.items)
               r == create_document(PROPOSAL_COLLECTION, draft_proposal(payload, totals), writeFails)
           IN
           /\ response' = DraftCreated(r, totals)
           /\ storeLog' = OneCall(r)
           /\ store' = r.store
           /\ nextId' = r.nextId

----------------------------------------------------------------------------
(* main.py: GET /leads, GET /proposals *)

LEADS_LIMIT == 50
PROPOSALS_LIMIT == 50

\* the answer body is the JSON array docs
Listed(r) == IF r.ok THEN Ok([docs |-> r.docs]) ELSE HTTPException(500, r.error)

list_documents(op, collection_name, tenant_id, limit, readFails) ==
    /\ request' = [op |-> op, payload |-> [tenant_id |-> tenant_id]]
    /\ UNCHANGED <<db, store, nextId>>
    /\ IF tenant_id = ABSENT THEN
           /\ response' = RequestValidationError
           /\ storeLog' = NoCalls
       ELSE
           LET r == get_documents(collection_name, tenant_id, limit, readFails) IN
           /\ response' = Listed(r)
           /\ storeLog' = OneCall(r)

\* a limit ten times the intended one
list_leads_wide(tenant_id, readFails) ==
    list_documents("list_leads", LEAD_COLLECTION, tenant_id, 10 * LEADS_LIMIT, readFails)

list_leads(tenant_id, readFails) ==
    list_documents("list_leads", LEAD_COLLECTION, tenant_id, LEADS_LIMIT, readFails)

list_proposals(tenant_id, readFails) ==
    list_documents("list_proposals", PROPOSAL_COLLECTION, tenant_id, PROPOSALS_LIMIT, readFails)

----------------------------------------------------------------------------
(* main.py: GET /, GET /test, GET /schema *)

read_root ==
    /\ request' = [op |-> "read_root", payload |-> NoPayload]
    /\ response' = Ok([message |-> "Kenya AI-CRM Backend running"])
    /\ storeLog' = NoCalls
    /\ UNCHANGED <<db, store, nextId>>

COLLECTIONS_SHOWN == 20
ERROR_CHARS == 80

Prefix(s, n) == SubSeq(s, 1, Min(n, Len(s)))

\* every name returned, the slice forgotten
shown_all(collections) == collections

\* collections[:20]
shown(collections) == Prefix(collections, COLLECTIONS_SHOWN)

EnvFlag(set) == IF set THEN "Set" ELSE "Not Set"

\* The answer of test_database.  listing is what db.list_collection_names()
\* does: [ok |-> TRUE, names |-> ...] or [ok |-> FALSE, error |-> ...], the
\* error being the characters of str(e).  `db is not None` cannot raise, so
\* the outer handler is never entered.
test_response(env, listing) ==
    LET base == [backend |-> "Running",
                 database |-> <<"Not Available">>,
                 database_url |-> EnvFlag(env.url),
                 database_name |-> EnvFlag(env.name),
                 connection_status |-> "Not Connected",
                 collections |-> <<>>]
    IN IF db # NULL THEN
           IF listing.ok THEN
               [base EXCEPT !.collections = shown(listing.names),
                            !.database = <<"Connected & Working">>,
                            !.connection_status = "Connected"]
           ELSE
               [base EXCEPT !.database =
                   <<"Connected but error", Prefix(listing.error, ERROR_CHARS)>>]
       ELSE [base EXCEPT !.database = <<"Not Initialized">>]

test_database(env, listing) ==
    /\ request' = [op |-> "test_database", payload |-> [env |-> env, listing |-> listing]]
    /\ response' = Ok(test_response(env, listing))
    /\ storeLog' = NoCalls
    /\ UNCHANGED <<db, store, nextId>>

SchemaError == [error |-> "schema generation failed"]

\* model.model_json_schema()
model_json_schema(model) == [title |-> model, type |-> "object"]

\* the loop body of get_schema; `failing` are the kinds whose generation raises
schema_entry(name, failing) ==
    IF name \in failing THEN SchemaError ELSE model_json_schema(SCHEMA_MODELS[name])

\* one handler around the whole loop: the first failure ends it
RECURSIVE schema_out_aborting(_, _)
schema_out_aborting(names, failing) ==
    IF names = <<>> \/ Head(names) \in failing THEN <<>>
    ELSE (Head(names) :> schema_entry(Head(names), failing))
            @@ schema_out_aborting(Tail(names), failing)

RECURSIVE schema_out(_, _)
schema_out(names, failing) ==
    IF names = <<>> THEN <<>>
    ELSE (Head(names) :> schema_entry(Head(names), failing))
            @@ schema_out(Tail(names), failing)

get_schema(failing) ==
    /\ request' = [op |-> "get_schema", payload |-> [failing |-> failing]]
    /\ response' = Ok(schema_out(SchemaNames, failing))
    /\ storeLog' = NoCalls
    /\ UNCHANGED <<db, store, nextId>>

----------------------------------------------------------------------------
(* Inputs *)

\* A POST /leads body.  With extras it also carries the keys status and meta,
\* which LeadIn does not declare.
RawLead(tenant_id, source, extras) ==
    [tenant_id |-> tenant_id, source |-> source,
     name |-> ABSENT, phone |-> ABSENT, email |-> ABSENT, company |-> ABSENT,
     status |-> IF extras THEN "won" ELSE ABSENT,
     meta |-> IF extras THEN {<<"ingest", "client">>} ELSE {}]

RawItem(quantity, unit_price_kes) ==
    [catalog_item_id |-> ABSENT, title |-> "Widget", description |-> ABSENT,
     quantity |-> quantity, unit_price_kes |-> unit_price_kes]

Untitled == [RawItem(Num(1), Num(100)) EXCEPT !.title = ABSENT]

\* 2 x 1000.00 and 1 x 500.00
ExampleItems == <<RawItem(Num(2), Num(100000)), RawItem(Num(1), Num(50000))>>

ItemLists ==
    {<<>>,
     ExampleItems,
     <<RawItem(Num(0), Num(33))>>,
     <<RawItem(NoNumber, Num(33)), RawItem(Num(2), NoNumber)>>,
     <<Untitled>>}

\* A POST /proposals/draft body.  extras = "enums" adds status, ai_status and
\* delivery_channels outside their enums; extras = "totals" adds totals of
\* the client's own.  ProposalDraftIn declares none of these keys.
RawProposal(tenant_id, items, extras) ==
    [tenant_id |-> tenant_id, lead_id |-> "L1", items |-> items,
     status |-> IF extras = "enums" THEN "bogus" ELSE ABSENT,
     ai_status |-> IF extras = "enums" THEN "bogus" ELSE ABSENT,
     delivery_channels |-> IF extras = "enums" THEN <<"fax">> ELSE <<>>,
     subtotal_kes |-> IF extras = "totals" THEN Num(99900) ELSE NoNumber,
     tax_kes |-> IF extras = "totals" THEN Num(99900) ELSE NoNumber,
     total_kes |-> IF extras = "totals" THEN Num(99900) ELSE NoNumber]

TenantInputs == {ABSENT, "", "t1"}
SourceInputs == {ABSENT, "web", "fax"}
LeadInputs == {RawLead(t, s, x) : t \in TenantInputs, s \in SourceInputs, x \in BOOLEAN}
ProposalInputs ==
    {RawProposal(t, items, x) :
        t \in TenantInputs, items \in ItemLists, x \in {"none", "enums", "totals"}}

Names(n) == [i \in 1..n |-> i]           \* n collection names
ErrorText(n) == [i \in 1..n |-> i]       \* the n characters of a message
Listed_ok(n) == [ok |-> TRUE, names |-> Names(n), error |-> <<>>]
Listed_error(n) == [ok |-> FALSE, names |-> <<>>, error |-> ErrorText(n)]

Envs == [url : BOOLEAN, name : BOOLEAN]
Listings ==
    {Listed_ok(n) : n \in 0..MaxCollections}
        \cup {Listed_error(n) : n \in {12, ERROR_CHARS, ERROR_CHARS + 7}}
SchemaKinds == DOMAIN SCHEMA_MODELS
FailingSets ==
    {f \in SUBSET SchemaKinds : Cardinality(f) <= MaxFailing} \cup {SchemaKinds}

FewEnvs == {[url |-> TRUE, name |-> FALSE]}
FewListings == {Listed_ok(2), Listed_error(12)}
FewFailing == {{}, {"lead"}}

EmptyStore == [lead |-> <<>>, proposal |-> <<>>]

\* A store that has served two tenants for a while: Preloaded leads and
\* Preloaded proposals of each, all written by the operations below.
Preloaded == LEADS_LIMIT - 1
LoadedTenants == {"t1", "t2"}
TenantOf(i) == IF i % 2 = 1 THEN "t1" ELSE "t2"
LoadedLead(i) == [_id |-> i] @@ lead_dict(LeadIn(RawLead(TenantOf(i), "web", FALSE)))
LoadedProposal(i) ==
    LET payload == ProposalDraftIn(RawProposal(TenantOf(i), ExampleItems, "none"))
    IN [_id |-> 2 * Preloaded + i] @@ draft_proposal(payload, compute_totals(payload.items))
LoadedStore ==
    [lead |-> [i \in 1..(2 * Preloaded) |-> LoadedLead(i)],
     proposal |-> [i \in 1..(2 * Preloaded) |-> LoadedProposal(i)]]
LoadedLeadInputs == {RawLead(t, "web", FALSE) : t \in LoadedTenants}
LoadedProposalInputs == {RawProposal(t, ExampleItems, "none") : t \in LoadedTenants}

Room(cap) == Len(store.lead) + Len(store.proposal) < cap

----------------------------------------------------------------------------
(* Specifications *)

Start ==
    /\ nextId = Len(store.lead) + Len(store.proposal) + 1
    /\ request = [op |-> "start", payload |-> NoPayload]
    /\ response = NoResponse
    /\ storeLog = NoCalls

Init == db \in {NULL, DB} /\ store = EmptyStore /\ Start

InitLoaded == db \in {NULL, DB} /\ store = LoadedStore /\ Start

Step(cap, leads, proposals, tenants, envs, listings, failings) ==
    \/ \E raw \in leads, writeFails \in BOOLEAN : Room(cap) /\ create_lead(raw, writeFails)
    \/ \E raw \in proposals, writeFails \in BOOLEAN :
            Room(cap) /\ create_proposal_draft(raw, writeFails)
    \/ \E t \in tenants, readFails \in BOOLEAN : list_leads(t, readFails)
    \/ \E t \in tenants, readFails \in BOOLEAN : list_proposals(t, readFails)
    \/ read_root
    \/ \E env \in envs, listing \in listings : test_database(env, listing)
    \/ \E failing \in failings : get_schema(failing)

\* the service on an empty store
Next ==
    Step(MaxRecords, LeadInputs, ProposalInputs, TenantInputs,
         FewEnvs, FewListings, FewFailing)

Spec == Init /\ [][Next]_vars

\* the service on a store that already holds many documents of two tenants
NextLoaded ==
    Step(4 * Preloaded + MaxRecords, LoadedLeadInputs, LoadedProposalInputs,
         LoadedTenants \cup {ABSENT, "t3"}, FewEnvs, FewListings, FewFailing)

SpecLoaded == InitLoaded /\ [][NextLoaded]_vars

\* the diagnostic operations alone, over every listing and the sets of
\* failing schema kinds of up to MaxFailing kinds, and all of them
NextDiag ==
    \/ read_root
    \/ \E env \in Envs, listing \in Listings : test_database(env, listing)
    \/ \E failing \in FailingSets : get_schema(failing)

SpecDiag == Init /\ [][NextDiag]_vars

----------------------------------------------------------------------------
(* Properties *)

CreateOps == {"create_lead", "create_proposal_draft"}
ListOps == {"list_leads", "list_proposals"}
Last(seq) == seq[Len(seq)]
AllIds(st) ==
    {st.lead[i]._id : i \in 1..Len(st.lead)}
        \cup {st.proposal[i]._id : i \in 1..Len(st.proposal)}

\* the subtotal as specified: a quantity the payload lacks counts as 1, a
\* price it lacks as 0, and every value it carries counts as itself
RECURSIVE SpecifiedSubtotal(_)
SpecifiedSubtotal(rawItems) ==
    IF rawItems = <<>> THEN 0
    ELSE LET it == Head(rawItems)
             q == IF it.quantity = NoNumber THEN 1 ELSE it.quantity[1]
             p == IF it.unit_price_kes = NoNumber THEN 0 ELSE it.unit_price_kes[1]
         IN q * p + SpecifiedSubtotal(Tail(rawItems))

SpecifiedTotals(rawItems) ==
    LET subtotal == SpecifiedSubtotal(rawItems)
        tax == Round(subtotal * 16, 100)
    IN [subtotal |-> subtotal, tax |-> tax, total |-> Round(subtotal + tax, 1)]

\* C1: a created proposal draft returns and stores subtotal = sum of
\* quantity * unit_price_kes, only a missing quantity counting as 1 and only
\* a missing price as 0, tax = round(subtotal * 0.16, 2) and
\* total = round(subtotal + tax, 2).
C1_TotalsAsSpecified ==
    (/\ request.op = "create_proposal_draft"
     /\ request.payload.tenant_id # ""
     /\ response.status = 200) =>
        LET want == SpecifiedTotals(request.payload.items)
            doc == Last(store.proposal)
        IN /\ response.body.totals = want
           /\ doc.subtotal_kes = want.subtotal
           /\ doc.tax_kes = want.tax
           /\ doc.total_kes = want.total

\* C2: a create request whose enum-constrained field (Lead.source; Proposal
\* status, ai_status, delivery_channels) lies outside its enum fails
\* validation and makes no store write.
C2_OutOfEnumRejected ==
    LET p == request.payload
        outside ==
            \/ /\ request.op = "create_lead"
               /\ p.tenant_id # ""
               /\ p.source \notin LeadSources
            \/ /\ request.op = "create_proposal_draft"
               /\ p.tenant_id # ""
               /\ \/ p.status \notin ProposalStatuses \cup {ABSENT}
                  \/ p.ai_status \notin ProposalAiStatuses \cup {ABSENT}
                  \/ \E i \in 1..Len(p.delivery_channels) :
                        p.delivery_channels[i] \notin DeliveryChannels
    IN outside => (response.status = 422 /\ storeLog.calls = 0)

\* C3: list_leads(t) and list_proposals(t) return only documents whose
\* tenant_id is t, and never more than 50 of them.
C3_ListTenantScoped ==
    (request.op \in ListOps /\ response.status = 200) =>
        /\ Len(response.body.docs) <= 50
        /\ \A i \in 1..Len(response.body.docs) :
                response.body.docs[i].tenant_id = request.payload.tenant_id

C3_Witness ==
    /\ request.op = "list_leads"
    /\ response.status = 200
    /\ Len(response.body.docs) = 50
    /\ Len(SelectSeq(store.lead, LAMBDA d : d.tenant_id = request.payload.tenant_id)) > 50
    /\ \E i \in 1..Len(store.lead) : store.lead[i].tenant_id # request.payload.tenant_id

\* C4: every stored lead has status "new" and meta {ingest: "api"} whatever
\* status or meta the caller sent, and a payload with such undeclared keys
\* is not rejected for them.
C4_LeadStatusForced ==
    /\ \A i \in 1..Len(store.lead) :
            store.lead[i].status = "new" /\ store.lead[i].meta = {<<"ingest", "api">>}
    /\ (/\ request.op = "create_lead"
        /\ request.payload.tenant_id # ABSENT
        /\ request.payload.source # ABSENT) => response.status # 422
    /\ (request.op = "create_lead" /\ response.status = 200) =>
            /\ Len(store.lead) > 0
            /\ Last(store.lead)._id = response.body.id
            /\ Last(store.lead).tenant_id = request.payload.tenant_id
            /\ Last(store.lead).status = "new"
            /\ Last(store.lead).meta = {<<"ingest", "api">>}

C4_Witness ==
    /\ request.op = "create_lead"
    /\ request.payload.status = "won"
    /\ request.payload.meta = {<<"ingest", "client">>}
    /\ response.status = 200
    /\ Last(store.lead)._id = response.body.id

\* C5: every stored document carries a non-empty tenant_id.
C5_TenantNeverEmpty ==
    \A c \in Collections : \A i \in 1..Len(store[c]) :
        store[c][i].tenant_id \notin {"", ABSENT, NULL}

\* C6: when the store handle is absent or the insert fails, a create ends in
\* a 500 carrying the store's message, after at most one store call, and
\* the store is as it was.
C6_StoreFailureIsServiceError ==
    [][(/\ request'.op \in CreateOps
        /\ response'.status # 422
        /\ (db = NULL \/ storeLog'.error # NULL))
            => /\ response'.status = 500
               /\ response'.body.detail = storeLog'.error
               /\ response'.body.detail \in {UnavailableMsg, WriteErrorMsg}
               /\ storeLog'.calls <= 1
               /\ store' = store]_vars

C6_Witness ==
    /\ request.op = "create_lead"
    /\ db # NULL
    /\ storeLog = [calls |-> 1, error |-> WriteErrorMsg]
    /\ response.status = 500
    /\ Len(store.lead) > 0

\* C7: every stored proposal has status "draft", ai_status "pending" and
\* delivery_channels ["pdf"]; the stored totals are the ones the response
\* returns, never the ones the client sent.
C7_DraftServerComputed ==
    /\ \A i \in 1..Len(store.proposal) :
            /\ store.proposal[i].status = "draft"
            /\ store.proposal[i].ai_status = "pending"
            /\ store.proposal[i].delivery_channels = <<"pdf">>
    /\ (request.op = "create_proposal_draft" /\ response.status = 200) =>
            /\ Len(store.proposal) > 0
            /\ LET doc == Last(store.proposal)
                   sent == request.payload
               IN /\ doc._id = response.body.id
                  /\ doc.subtotal_kes = response.body.totals.subtotal
                  /\ doc.tax_kes = response.body.totals.tax
                  /\ doc.total_kes = response.body.totals.total
                  /\ sent.subtotal_kes # NoNumber => doc.subtotal_kes # sent.subtotal_kes[1]
                  /\ sent.tax_kes # NoNumber => doc.tax_kes # sent.tax_kes[1]
                  /\ sent.total_kes # NoNumber => doc.total_kes # sent.total_kes[1]

C7_Witness ==
    /\ request.op = "create_proposal_draft"
    /\ request.payload.subtotal_kes # NoNumber
    /\ response.status = 200
    /\ response.body.totals = [subtotal |-> 250000, tax |-> 40000, total |-> 290000]

\* C8: /test always answers with success: without a handle the database
\* field says so and connection_status stays "Not Connected"; when the
\* listing fails the database field is a degraded text; when it succeeds at
\* most 20 collection names are returned.
C8_TestNeverFails ==
    request.op = "test_database" =>
        LET body == response.body
            listing == request.payload.listing
        IN /\ response.status = 200
           /\ db = NULL =>
                /\ body.database = <<"Not Initialized">>
                /\ body.connection_status = "Not Connected"
                /\ body.collections = <<>>
           /\ (db # NULL /\ ~listing.ok) =>
                /\ body.database[1] = "Connected but error"
                /\ Len(body.database[2]) <= 80
                /\ body.connection_status = "Not Connected"
                /\ body.collections = <<>>
           /\ (db # NULL /\ listing.ok) =>
                /\ body.database = <<"Connected & Working">>
                /\ body.connection_status = "Connected"
                /\ Len(body.collections) <= 20
                /\ \A i \in 1..Len(body.collections) : body.collections[i] = listing.names[i]

C8_Witness ==
    /\ request.op = "test_database"
    /\ db # NULL
    /\ request.payload.listing.ok
    /\ Len(request.payload.listing.names) > 20
    /\ Len(response.body.collections) = 20

\* C9: /schema answers with an entry for every registered kind: the error
\* marker for each kind whose descriptor generation fails, the descriptor
\* for every other kind.
C9_SchemaPerKind ==
    request.op = "get_schema" =>
        /\ response.status = 200
        /\ DOMAIN response.body = DOMAIN SCHEMA_MODELS
        /\ \A n \in DOMAIN SCHEMA_MODELS :
              IF n \in request.payload.failing
              THEN response.body[n] = [error |-> "schema generation failed"]
              ELSE /\ DOMAIN response.body[n] = {"title", "type"}
                   /\ response.body[n].title = SCHEMA_MODELS[n]

C9_Witness ==
    /\ request.op = "get_schema"
    /\ request.payload.failing = {"tenant", "proposal"}
    /\ response.body["proposal"] = [error |-> "schema generation failed"]
    /\ response.body["eventlog"].title = "EventLog"

\* C10: the store is append-only: a step never changes or removes a stored
\* document, the reading operations leave the store as it is, and a
\* successful create adds exactly one document, with an id no stored
\* document has, to its own collection and nothing to the other.
C10_AppendOnly ==
    [][/\ \A c \in Collections :
            /\ Len(store[c]) <= Len(store'[c])
            /\ SubSeq(store'[c], 1, Len(store[c])) = store[c]
       /\ request'.op \notin CreateOps => store' = store
       /\ (request'.op \in CreateOps /\ response'.status # 200) => store' = store
       /\ (request'.op = "create_lead" /\ response'.status = 200) =>
            /\ store'.proposal = store.proposal
            /\ Len(store'.lead) = Len(store.lead) + 1
            /\ Last(store'.lead)._id = response'.body.id
            /\ response'.body.id \notin AllIds(store)
       /\ (request'.op = "create_proposal_draft" /\ response'.status = 200) =>
            /\ store'.lead = store.lead
            /\ Len(store'.proposal) = Len(store.proposal) + 1
            /\ Last(store'.proposal)._id = response'.body.id
            /\ response'.body.id \notin AllIds(store)]_vars

C10_Witness ==
    /\ Len(store.lead) = 1
    /\ Len(store.proposal) = 1
    /\ request.op = "create_proposal_draft"
    /\ response.status = 200
    /\ store.lead[1]._id # store.proposal[1]._id
====
